---------------------------- MODULE Spec2Model ----------------------------
(***************************************************************************)
(* Math Prodigy Bot (src/math-prodigy-bot.py): the LaTeX delimiter         *)
(* normalizer convert_latex_to_markdown_format, the prompt built by        *)
(* generate_solution, and the Streamlit script main() seen as a state      *)
(* machine whose steps are the script's reruns (a widget change, or a      *)
(* press of the Generate button).                                          *)
(*                                                                         *)
(* Text is a TLA+ string, i.e. a sequence of characters: Len, SubSeq, Tail *)
(* and \o act on it character by character.                                *)
(***************************************************************************)
EXTENDS Naturals, Sequences, FiniteSets, TLC

VARIABLES
    openai_api_key,       \* render_sidebar's text_input value, "" when empty
    uploaded_image,       \* the file_uploader's value, NoneValue when empty
    explanation_detail,   \* the selectbox's value
    practice_set,         \* the radio's value
    session_state,        \* st.session_state: a function from the keys present
    run,                  \* what the latest rerun of the script did
    answered,             \* history: the latest agent run that returned a text
    text,                 \* normalizer harness: the input text
    stage,                \* normalizer harness: which application has run
    output                \* normalizer harness: the results so far, in order

vars == <<openai_api_key, uploaded_image, explanation_detail, practice_set,
          session_state, run, answered, text, stage, output>>

sessionVars == <<openai_api_key, uploaded_image, explanation_detail, practice_set,
                 session_state, run, answered>>

normVars == <<text, stage, output>>

-----------------------------------------------------------------------------
(* Strings *)

\* Python's None.
NoneValue == "<None>"

CharAt(s, i) == SubSeq(s, i, i)

-----------------------------------------------------------------------------
(* convert_latex_to_markdown_format: two re.sub passes *)

BS == "\\"

\* The pattern's opening delimiter, a backslash and the bracket, starts at i.
DelimAt(s, i, bracket) ==
    /\ i + 1 <= Len(s)
    /\ CharAt(s, i) = BS
    /\ CharAt(s, i + 1) = bracket

\* (.*?) followed by the closing delimiter, tried from k: the first position at
\* or after k where the closing delimiter starts, every character passed over
\* being one "." matches (any character under re.DOTALL, any but a newline
\* without it); 0 when there is none.
RECURSIVE FindClose(_, _, _, _)
FindClose(s, k, close, dotall) ==
    IF k + 1 > Len(s) THEN 0
    ELSE IF DelimAt(s, k, close) THEN k
    ELSE IF ~dotall /\ CharAt(s, k) = "\n" THEN 0
    ELSE FindClose(s, k + 1, close, dotall)

\* re.sub(pattern, repl, s) from position i on: the leftmost match is replaced
\* by repl, group 1, repl; the scan resumes after the match; a character no
\* match starts at is copied.
RECURSIVE SubFrom(_, _, _, _, _, _)
SubFrom(s, i, open, close, repl, dotall) ==
    IF i > Len(s) THEN ""
    ELSE LET k == IF DelimAt(s, i, open)
                  THEN FindClose(s, i + 2, close, dotall) ELSE 0
         IN  IF k # 0
             THEN repl \o SubSeq(s, i + 2, k - 1) \o repl
                       \o SubFrom(s, k + 2, open, close, repl, dotall)
             ELSE CharAt(s, i) \o SubFrom(s, i + 1, open, close, repl, dotall)

\* The block pass with flags=re.DOTALL forgotten: a span stops at a newline.
ConvertBlockNoDotall(s) == SubFrom(s, 1, "[", "]", "$$", FALSE)

\* The block pass with count=1: only the first span is rewritten.
ConvertBlockFirstOnly(s) ==
    LET RECURSIVE First(_)
        First(i) ==
            IF i > Len(s) THEN ""
            ELSE LET k == IF DelimAt(s, i, "[")
                          THEN FindClose(s, i + 2, "]", TRUE) ELSE 0
                 IN  IF k # 0
                     THEN "$$" \o SubSeq(s, i + 2, k - 1) \o "$$"
                               \o SubSeq(s, k + 2, Len(s))
                     ELSE CharAt(s, i) \o First(i + 1)
    IN  First(1)

\* re.sub(r"\\\[(.*?)\\\]", r"$$\1$$", text, flags=re.DOTALL)
ConvertBlock(s) == SubFrom(s, 1, "[", "]", "$$", TRUE)

\* The inline pass writing the block replacement, $$, for its delimiters.
ConvertInlineAsBlock(s) == SubFrom(s, 1, "(", ")", "$$", FALSE)

\* re.sub(r"\\\((.*?)\\\)", r"$\1$", text)
ConvertInline(s) == SubFrom(s, 1, "(", ")", "$", FALSE)

convert_latex_to_markdown_format(s) == ConvertInline(ConvertBlock(s))

-----------------------------------------------------------------------------
(* The normalizer applied to bounded inputs *)

\* The longest input, in tokens.
MaxToks == 4

\* What an input is made of: an ordinary character, a newline, a dollar, the
\* four delimiters and a lone backslash.
Tokens == {"a", "\n", "$", "\\[", "\\]", "\\(", "\\)", BS}

RECURSIVE TokenStrings(_)
TokenStrings(n) ==
    IF n = 0 THEN {""}
    ELSE LET shorter == TokenStrings(n - 1)
         IN  shorter \cup {p \o t : p \in shorter, t \in Tokens}

-----------------------------------------------------------------------------
(* generate_solution: the prompt *)

UpperCase == "ABCDEFGHIJKLMNOPQRSTUVWXYZ"
LowerCase == "abcdefghijklmnopqrstuvwxyz"

\* str.lower(), on ASCII text
RECURSIVE Lower(_)
Lower(s) ==
    IF s = "" THEN ""
    ELSE LET c == CharAt(s, 1)
             up == {i \in 1..Len(UpperCase) : CharAt(UpperCase, i) = c}
         IN  (IF up = {} THEN c ELSE CharAt(LowerCase, CHOOSE i \in up : TRUE))
                 \o Lower(Tail(s))

IsSpace(c) == c \in {" ", "\n", "\t", "\r"}

\* str.strip()
RECURSIVE Strip(_)
Strip(s) ==
    IF s = "" THEN ""
    ELSE IF IsSpace(CharAt(s, 1)) THEN Strip(Tail(s))
    ELSE IF IsSpace(CharAt(s, Len(s))) THEN Strip(SubSeq(s, 1, Len(s) - 1))
    ELSE s

\* The conditional of the f-string with its test inverted.
PracticePhraseInverted(practice) ==
    IF practice = "Yes" THEN "only the solution" ELSE "similar problems for practice"

\* "similar problems for practice" if practice_set == "Yes" else "only the solution"
PracticePhrase(practice) ==
    IF practice = "Yes" THEN "similar problems for practice" ELSE "only the solution"

\* The f-string prompt, stripped as it is handed to the agent's run.
prompt(detail, practice) ==
    Strip("\n    A user has uploaded a screenshot of a math problem.\n\n"
          \o "    Please solve it and provide a **" \o Lower(detail)
          \o "** explanation, as per the defined explanation styles.\n\n"
          \o "    The user has requested **" \o PracticePhrase(practice) \o "**.\n\n"
          \o "    Structure your response clearly and format all math using Markdown and LaTeX.\n"
          \o "    ")

-----------------------------------------------------------------------------
(* The Streamlit session *)

\* What the user may type into the sidebar's key field.
KeyInputs == {"", "sk-one", "sk-two"}

\* The files the user may upload.
Images == {"problem1.png", "problem2.jpg"}

DetailLabels == {"Brief overview", "Standard step-by-step",
                 "In-depth explanation with reasoning"}

PracticeChoices == {"Yes", "No"}

\* What the agent's run may do: raise, or return a response whose content is
\* a text or None.
Contents == {"Solve \\(x+1\\)=2", "\\[a\nb\\]", "x = 1"}
Responses == {[raises |-> TRUE, content |-> NoneValue]}
                 \cup {[raises |-> FALSE, content |-> c] : c \in Contents \cup {NoneValue}}

MissingCredential == "Please provide your OpenAI API key in the sidebar."
MissingInput == "Please upload a math problem screenshot to proceed."

\* key in st.session_state / hasattr(st.session_state, key)
Has(ss, key) == key \in DOMAIN ss

\* st.session_state.<key> = value
Set(ss, key, value) ==
    [k \in DOMAIN ss \cup {key} |-> IF k = key THEN value ELSE ss[k]]

\* render_sidebar: a non-empty key field is stored in the session
render_sidebar(ss, typed) ==
    IF typed # "" THEN Set(ss, "openai_api_key", typed) ELSE ss

\* A rerun of the script: nothing surfaced, generate_solution not entered.
\* invoked: generate_solution was called; called: the agent's run was reached,
\* with api_key, image and prompt; raised: an exception left main().
IdleRun == [button |-> FALSE, message |-> NoneValue, invoked |-> FALSE,
            called |-> FALSE, api_key |-> NoneValue, image |-> NoneValue,
            prompt |-> NoneValue, content |-> NoneValue, raised |-> FALSE,
            stored |-> FALSE]

\* No agent run has returned a text yet.
NoAnswer == [image |-> NoneValue, content |-> NoneValue]

\* The image test before the key test.
ValidateImageFirst(ss, image) ==
    IF image = NoneValue THEN MissingInput
    ELSE IF ~Has(ss, "openai_api_key") THEN MissingCredential
    ELSE NoneValue

\* The image test left out.
ValidateKeyOnly(ss, image) ==
    IF ~Has(ss, "openai_api_key") THEN MissingCredential ELSE NoneValue

\* main's if / elif under the button: the st.error message, None when the
\* request may proceed.
Validate(ss, image) ==
    IF ~Has(ss, "openai_api_key") THEN MissingCredential
    ELSE IF image = NoneValue THEN MissingInput
    ELSE NoneValue

\* generate_solution(solution_preferences) under the response the agent gives:
\* the upload's bytes are copied to a temporary file (None has no getvalue),
\* the agent is built with the session's key (a missing attribute raises), and
\* the agent is run with the prompt and the copy.
generate_solution(ss, image, detail, practice, response) ==
    IF image = NoneValue \/ ~Has(ss, "openai_api_key")
    THEN [IdleRun EXCEPT !.button = TRUE, !.invoked = TRUE, !.raised = TRUE,
                         !.image = image,
                         !.api_key = IF Has(ss, "openai_api_key")
                                     THEN ss["openai_api_key"] ELSE NoneValue]
    ELSE [IdleRun EXCEPT !.button = TRUE, !.invoked = TRUE, !.called = TRUE,
                         !.api_key = ss["openai_api_key"], !.image = image,
                         !.prompt = prompt(detail, practice),
                         !.raised = response.raises,
                         !.content = response.content]

\* The solution stored as the agent returned it.
SaveResultsRaw(ss, solution, image) ==
    Set(Set(ss, "solution", solution), "image", image)

\* Only the solution stored.
SaveResultsNoImage(ss, solution, image) ==
    Set(ss, "solution", convert_latex_to_markdown_format(solution))

\* The image stored only when none is stored yet.
SaveResultsKeepImage(ss, solution, image) ==
    LET withSolution == Set(ss, "solution", convert_latex_to_markdown_format(solution))
    IN  IF Has(ss, "image") THEN withSolution ELSE Set(withSolution, "image", image)

\* st.session_state.solution = convert_latex_to_markdown_format(solution)
\* st.session_state.image = solution_preferences["uploaded_image"]
SaveResults(ss, solution, image) ==
    Set(Set(ss, "solution", convert_latex_to_markdown_format(solution)),
        "image", image)

\* The result is displayed, and offered for download.
Displayed(ss) == Has(ss, "solution") /\ Has(ss, "image")

\* The script run from top to bottom with the button not pressed.
Rerun(typed) ==
    /\ session_state' = render_sidebar(session_state, typed)
    /\ run' = IdleRun
    /\ UNCHANGED <<answered, normVars>>

\* The user commits a new value of the sidebar's key field.
EnterKey(typed) ==
    /\ typed # openai_api_key
    /\ openai_api_key' = typed
    /\ Rerun(typed)
    /\ UNCHANGED <<uploaded_image, explanation_detail, practice_set>>

\* The user uploads a file, replaces it or removes it.
UploadImage(image) ==
    /\ image # uploaded_image
    /\ uploaded_image' = image
    /\ Rerun(openai_api_key)
    /\ UNCHANGED <<openai_api_key, explanation_detail, practice_set>>

SelectDetail(detail) ==
    /\ detail # explanation_detail
    /\ explanation_detail' = detail
    /\ Rerun(openai_api_key)
    /\ UNCHANGED <<openai_api_key, uploaded_image, practice_set>>

SelectPractice(practice) ==
    /\ practice # practice_set
    /\ practice_set' = practice
    /\ Rerun(openai_api_key)
    /\ UNCHANGED <<openai_api_key, uploaded_image, explanation_detail>>

\* The user presses "Generate Math Solution": the script runs with the button
\* true, to its end or to the exception that leaves main().
PressGenerate(response) ==
    LET ss == render_sidebar(session_state, openai_api_key)
        message == Validate(ss, uploaded_image)
        g == generate_solution(ss, uploaded_image, explanation_detail,
                               practice_set, response)
    IN  /\ IF message # NoneValue
           THEN /\ run' = [IdleRun EXCEPT !.button = TRUE, !.message = message]
                /\ session_state' = ss
                /\ UNCHANGED answered
           ELSE IF g.raised
           THEN /\ run' = g
                /\ session_state' = ss
                /\ UNCHANGED answered
           ELSE IF g.content = NoneValue
           \* re.sub(pattern, repl, None) raises TypeError
           THEN /\ run' = [g EXCEPT !.raised = TRUE]
                /\ session_state' = ss
                /\ UNCHANGED answered
           ELSE /\ run' = [g EXCEPT !.stored = TRUE]
                /\ session_state' = SaveResults(ss, g.content, uploaded_image)
                /\ answered' = [image |-> g.image, content |-> g.content]
        /\ UNCHANGED <<openai_api_key, uploaded_image, explanation_detail, practice_set>>
        /\ UNCHANGED normVars

Init ==
    /\ openai_api_key = ""
    /\ uploaded_image = NoneValue
    /\ explanation_detail = "Brief overview"
    /\ practice_set = "Yes"
    /\ session_state = <<>>
    /\ run = IdleRun
    /\ answered = NoAnswer
    /\ text = ""
    /\ stage = "input"
    /\ output = <<>>

Next ==
    \/ \E typed \in KeyInputs : EnterKey(typed)
    \/ \E image \in Images \cup {NoneValue} : UploadImage(image)
    \/ \E detail \in DetailLabels : SelectDetail(detail)
    \/ \E practice \in PracticeChoices : SelectPractice(practice)
    \/ \E response \in Responses : PressGenerate(response)

Spec == Init /\ [][Next]_vars

\* The normalizer alone: no session is running.
InitNorm ==
    /\ text \in TokenStrings(MaxToks)
    /\ stage = "input"
    /\ output = <<>>
    /\ openai_api_key = ""
    /\ uploaded_image = NoneValue
    /\ explanation_detail = "Brief overview"
    /\ practice_set = "Yes"
    /\ session_state = <<>>
    /\ run = IdleRun
    /\ answered = NoAnswer

\* normalize(text)
Normalize ==
    /\ stage = "input"
    /\ stage' = "normalized"
    /\ output' = <<convert_latex_to_markdown_format(text)>>
    /\ UNCHANGED <<text, sessionVars>>

\* normalize(normalize(text))
Renormalize ==
    /\ stage = "normalized"
    /\ stage' = "renormalized"
    /\ output' = Append(output, convert_latex_to_markdown_format(output[1]))
    /\ UNCHANGED <<text, sessionVars>>

\* normalize("\[" + text + "\]")
NormalizeBlockSpan ==
    /\ stage = "input"
    /\ stage' = "block span"
    /\ output' = <<convert_latex_to_markdown_format("\\[" \o text \o "\\]")>>
    /\ UNCHANGED <<text, sessionVars>>

\* normalize("\(" + text + "\)")
NormalizeInlineSpan ==
    /\ stage = "input"
    /\ stage' = "inline span"
    /\ output' = <<convert_latex_to_markdown_format("\\(" \o text \o "\\)")>>
    /\ UNCHANGED <<text, sessionVars>>

NextNorm ==
    \/ Normalize
    \/ Renormalize
    \/ NormalizeBlockSpan
    \/ NormalizeInlineSpan

SpecNorm == InitNorm /\ [][NextNorm]_vars

-----------------------------------------------------------------------------
(* Properties of the session, checked under Spec *)

\* sub occurs in s.
Contains(s, sub) ==
    \E i \in 1..(Len(s) + 1 - Len(sub)) : SubSeq(s, i, i + Len(sub) - 1) = sub

\* The stored pair: the solution and image keys of the session that are present.
Pair(ss) == [k \in DOMAIN ss \cap {"solution", "image"} |-> ss[k]]

\* C1: in every reachable session state, after key entries, uploads and
\* presses of any outcome, solution is in the session if and only if image is.
C1_SolutionIffImage ==
    Has(session_state, "solution") <=> Has(session_state, "image")

\* C1's case: a pair is stored and a later press ended in an exception.
C1_Witness ==
    /\ Has(session_state, "solution") /\ Has(session_state, "image")
    /\ run.button /\ run.raised

\* C2: generate_solution is entered, and the agent run, only on a press made
\* with an API key in the session and an uploaded image in the preferences.
C2_CallOnlyWithKeyAndImage ==
    /\ run.called => run.invoked
    /\ run.invoked =>
        /\ run.button
        /\ Has(session_state, "openai_api_key")
        /\ run.api_key = session_state["openai_api_key"]
        /\ uploaded_image # NoneValue
        /\ run.image = uploaded_image

\* C2's case: the agent was run.
C2_Witness ==
    run.called /\ run.api_key = "sk-two" /\ run.image = "problem1.png"

\* C3: a press without an API key surfaces MissingCredential, a press with a
\* key and without an image surfaces MissingInput, and either leaves the stored
\* pair as it was before the press.
C3_RejectedPressKeepsPair ==
    [][run'.button =>
        /\ ~Has(session_state, "openai_api_key") =>
              /\ run'.message = MissingCredential
              /\ ~run'.invoked
              /\ Pair(session_state') = Pair(session_state)
        /\ Has(session_state, "openai_api_key") /\ uploaded_image = NoneValue =>
              /\ run'.message = MissingInput
              /\ ~run'.invoked
              /\ Pair(session_state') = Pair(session_state)]_vars

\* C3's case: a press rejected for the missing image while an earlier pair is
\* stored.
C3_Witness ==
    /\ run.button /\ run.message = MissingInput
    /\ Displayed(session_state)

\* C4: when the agent run raises or returns no text, the failure is surfaced
\* as a message, as the two validation failures are, and no exception
\* leaves main().
C4_ModelFailureRecovered ==
    run.called /\ run.content = NoneValue =>
        /\ ~run.raised
        /\ run.message # NoneValue

\* C5: after a press with key and image whose agent run returned the text r,
\* the session's solution is the normalized r and its image is the image
\* uploaded for that press.
C5_StoresNormalizedAndImage ==
    run.stored =>
        /\ run.called /\ run.content # NoneValue
        /\ session_state["solution"] = convert_latex_to_markdown_format(run.content)
        /\ run.content = "Solve \\(x+1\\)=2" =>
              session_state["solution"] = "Solve $x+1$=2"
        /\ session_state["image"] = uploaded_image
        /\ run.image = uploaded_image

\* C5's case: the spec's example, stored with the second image.
C5_Witness ==
    /\ run.stored
    /\ run.content = "Solve \\(x+1\\)=2"
    /\ session_state["solution"] = "Solve $x+1$=2"
    /\ session_state["image"] = "problem2.jpg"

\* The lowercase form of each label of the selectbox.
LowerLabel(detail) ==
    CASE detail = "Brief overview" -> "brief overview"
      [] detail = "Standard step-by-step" -> "standard step-by-step"
      [] detail = "In-depth explanation with reasoning" ->
             "in-depth explanation with reasoning"

\* The prompt holds the lowercase label and, of the two phrases, only the one
\* of the practice choice.
PromptHas(wanted, onlySolution) ==
    /\ Contains(run.prompt, LowerLabel(explanation_detail))
    /\ practice_set = "Yes" =>
          Contains(run.prompt, wanted) /\ ~Contains(run.prompt, onlySolution)
    /\ practice_set = "No" =>
          Contains(run.prompt, onlySolution) /\ ~Contains(run.prompt, wanted)

\* C9 as stated: the prompt sent holds the lowercase label and exactly one of
\* "a set of similar problems for practice" (practice requested) and
\* "only the solution" (not requested).
C9_PromptPhrases_AsStated ==
    run.called => PromptHas("a set of similar problems for practice", "only the solution")

\* C9 amended: the phrase of a requested practice set is
\* "similar problems for practice"; "a set of ..." is in no prompt.
C9_PromptPhrases ==
    run.called =>
        /\ PromptHas("similar problems for practice", "only the solution")
        /\ ~Contains(run.prompt, "a set of similar problems for practice")

\* C9's case: a prompt sent for a requested practice set.
C9_Witness ==
    /\ run.called /\ practice_set = "Yes"
    /\ explanation_detail = "In-depth explanation with reasoning"

\* C10: a displayed solution is the normalized text of the agent run made with
\* the displayed image, and the pair changes only in a press that stores.
C10_SolutionBelongsToImage ==
    /\ [](Displayed(session_state) =>
            /\ session_state["image"] = answered.image
            /\ session_state["solution"] =
                   convert_latex_to_markdown_format(answered.content))
    /\ [][Pair(session_state') # Pair(session_state) => run'.stored]_vars

\* C10's case: a pair is stored, another image has been uploaded since, and a
\* press with it failed.
C10_Witness ==
    /\ Displayed(session_state)
    /\ uploaded_image \notin {NoneValue, session_state["image"]}
    /\ run.called /\ run.raised

-----------------------------------------------------------------------------
(* Properties of the normalizer, checked under SpecNorm *)

\* s is a concatenation of tokens of toks.
RECURSIVE OverTokens(_, _)
OverTokens(s, toks) ==
    \/ s = ""
    \/ \E t \in toks :
          /\ Len(t) <= Len(s)
          /\ SubSeq(s, 1, Len(t)) = t
          /\ OverTokens(SubSeq(s, Len(t) + 1, Len(s)), toks)

\* s holds an opening delimiter with its closing delimiter after it (for the
\* inline pair, on the same line).
HasBlockSpan(s) ==
    \E i \in 1..Len(s) : DelimAt(s, i, "[") /\ FindClose(s, i + 2, "]", TRUE) # 0
HasInlineSpan(s) ==
    \E i \in 1..Len(s) : DelimAt(s, i, "(") /\ FindClose(s, i + 2, ")", FALSE) # 0

\* s holds an opening delimiter followed by a second one of its kind before
\* the next closing delimiter of that kind.
NestedOpener(s) ==
    \E i \in 1..Len(s) :
        \/ /\ DelimAt(s, i, "[")
           /\ LET k == FindClose(s, i + 2, "]", TRUE)
              IN  k # 0 /\ Contains(SubSeq(s, i + 2, k - 1), "\\[")
        \/ /\ DelimAt(s, i, "(")
           /\ LET k == FindClose(s, i + 2, ")", FALSE)
              IN  k # 0 /\ Contains(SubSeq(s, i + 2, k - 1), "\\(")

DelimiterFree(s) ==
    \A d \in {"\\[", "\\]", "\\(", "\\)"} : ~Contains(s, d)

\* C6 as stated: for every body over ordinary characters, newline and the
\* tokens \[, \(, \) (so without \]), normalize("\[" + body + "\]") is
\* "$$" + body + "$$".
C6_BlockSpan_AsStated ==
    stage = "block span" /\ OverTokens(text, {"a", "\n", "\\[", "\\(", "\\)"}) =>
        output[1] = "$$" \o text \o "$$"

\* C6 amended: for every body without \] and without an inline span (a \(
\* followed on its line by a \)), normalize("\[" + body + "\]") is
\* "$$" + body + "$$"; a body with an inline span has that span rewritten too.
C6_BlockSpan ==
    stage = "block span" /\ ~Contains(text, "\\]") =>
        IF HasInlineSpan(text)
        THEN output[1] = "$$" \o ConvertInline(text) \o "$$"
             /\ output[1] # "$$" \o text \o "$$"
        ELSE output[1] = "$$" \o text \o "$$"

\* C6's case: a body of two lines with an unclosed \( in it.
C6_Witness ==
    /\ stage = "block span"
    /\ text = "a\n\\(a"
    /\ output = <<"$$a\n\\(a$$">>

\* C7 as stated: for every body over ordinary characters and the tokens \[,
\* \], \( (so without \) and newline), normalize("\(" + body + "\)") is
\* "$" + body + "$".
C7_InlineSpan_AsStated ==
    stage = "inline span" /\ OverTokens(text, {"a", "\\[", "\\]", "\\("}) =>
        output[1] = "$" \o text \o "$"

\* C7 amended: for every body without \), without newline and without a block
\* span (a \[ followed by a \]), normalize("\(" + body + "\)") is
\* "$" + body + "$"; a body with a block span has that span rewritten too.
C7_InlineSpan ==
    stage = "inline span" /\ ~Contains(text, "\\)") /\ ~Contains(text, "\n") =>
        IF HasBlockSpan(text)
        THEN output[1] = "$" \o ConvertBlock(text) \o "$"
             /\ output[1] # "$" \o text \o "$"
        ELSE output[1] = "$" \o text \o "$"

\* C7's case: a body with a \] before a \[, which is no block span.
C7_Witness ==
    /\ stage = "inline span"
    /\ text = "\\]a\\[a"
    /\ output = <<"$\\]a\\[a$">>

\* C8 as stated: normalize(normalize(u)) = normalize(u) for every u over
\* ordinary characters, newline, $ and the four delimiters, nested delimiters
\* included; a delimiter-free u is returned unchanged.
C8_Idempotent_AsStated ==
    /\ stage = "renormalized" /\ OverTokens(text, Tokens \ {BS}) =>
          output[2] = output[1]
    /\ stage = "normalized" /\ DelimiterFree(text) => output[1] = text

\* C8 amended: normalize(normalize(u)) = normalize(u) for every u in which no
\* opening delimiter is followed by a second one of its kind before the next
\* closing delimiter of that kind (unbalanced and interleaved delimiters
\* included); a delimiter-free u is returned unchanged.
C8_Idempotent ==
    /\ stage = "renormalized" /\ ~NestedOpener(text) => output[2] = output[1]
    /\ stage = "normalized" /\ DelimiterFree(text) => output[1] = text

\* C8's case: interleaved delimiters, rewritten by the first application and
\* left alone by the second.
C8_Witness ==
    /\ stage = "renormalized"
    /\ text = "\\(\\[\\)\\]"
    /\ output = <<"$$$$$$", "$$$$$$">>

=============================================================================
